---- MODULE Spec2Model ----
(***************************************************************************)
(* Model of streamlit_app.py, the Rwanda financial-inclusion dashboard.    *)
(*                                                                         *)
(* State: the two source tables read at module level, the st.cache_data    *)
(* entry of prepare_analysis_data, the three sidebar widgets, and what the *)
(* last run of main() left behind (its DataFrame objects and the output of *)
(* the view it called).  Every Streamlit script run is one action: a run   *)
(* executes main() from top to bottom and stops at the first exception.    *)
(*                                                                         *)
(* Arithmetic.  pandas computes means and quantiles in float64.  A mean is *)
(* kept here as the exact fraction [num, den] (den = 0 is pandas' NaN) and *)
(* a quantile edge as 5 times its exact value; for integer incomes and     *)
(* table sizes far below 2^26 rows the float comparisons pandas makes      *)
(* agree with the exact ones.                                              *)
(*                                                                         *)
(* A DataFrame is [obj, rows, columns]: obj names the Python object, so    *)
(* that two variables naming one object are seen to share a column one of  *)
(* them assigns; rows carry the index label pandas keeps through a filter. *)
(***************************************************************************)
EXTENDS Integers, Sequences, FiniteSets, TLC

VARIABLES
    demographics,        \* pd.read_csv("demographics.csv"): sequence of rows
    financial_services,  \* pd.read_csv("financial_services.csv")
    cache,               \* st.cache_data entry of prepare_analysis_data
    analysis_type,       \* sidebar selectbox "Select Analysis View:"
    selected_provinces,  \* sidebar multiselect "Select Provinces:"
    urban_rural_filter,  \* sidebar selectbox "Urban/Rural Filter:"
    df,                  \* main's local df of the last run
    filtered_df,         \* main's local filtered_df of the last run
    view_in,             \* the DataFrame the last view received, as received
    view_out,            \* what the last view computed and displayed
    run                  \* how the last script run ended

vars == <<demographics, financial_services, cache, analysis_type,
          selected_provinces, urban_rural_filter, df, filtered_df,
          view_in, view_out, run>>

----------------------------------------------------------------------------
(* Bounds of the input families *)

MaxRows == 2
MaxId == 2
MaxQRows == 6
MaxIncome == 5

\* Category values of the input families, each list in the sorted order
\* groupby gives its keys.
ProvinceList == <<"Kigali", "North">>
UrbanRuralList == <<"Rural", "Urban">>
EducationList == <<"Primary">>
Ages == {30}
LiteracyScores == {5}
Flags == {0, 1}

----------------------------------------------------------------------------
(* Generic helpers *)

Min(a, b) == IF a <= b THEN a ELSE b

Range(s) == {s[i] : i \in 1..Len(s)}

RECURSIVE SumSeq(_)
SumSeq(s) == IF s = <<>> THEN 0 ELSE Head(s) + SumSeq(Tail(s))

RECURSIVE Flatten(_)
Flatten(ss) == IF ss = <<>> THEN <<>> ELSE Head(ss) \o Flatten(Tail(ss))

\* Positions k of the boolean sequence mask with mask[k] true, in order.
RECURSIVE TrueIdx(_, _)
TrueIdx(mask, i) ==
    IF i > Len(mask) THEN <<>>
    ELSE (IF mask[i] THEN <<i>> ELSE <<>>) \o TrueIdx(mask, i + 1)

Col(rows, c) == [k \in 1..Len(rows) |-> rows[k][c]]

RECURSIVE InsertSorted(_, _)
InsertSorted(x, s) ==
    IF s = <<>> THEN <<x>>
    ELSE IF x < Head(s) THEN <<x>> \o s
    ELSE <<Head(s)>> \o InsertSorted(x, Tail(s))

RECURSIVE SortInts(_)
SortInts(s) == IF s = <<>> THEN <<>> ELSE InsertSorted(Head(s), SortInts(Tail(s)))

----------------------------------------------------------------------------
(* Rows of the two source tables *)

DemoRow(id, prov, ur, a, edu, income) ==
    [respondent_id |-> id, province |-> prov, urban_rural |-> ur, age |-> a,
     education |-> edu, monthly_income_rwf |-> income]

ServRow(id, bank, mobile, savings, loan, insurance, literacy) ==
    [respondent_id |-> id, has_bank_account |-> bank,
     uses_mobile_money |-> mobile, has_savings |-> savings,
     has_loan |-> loan, uses_insurance |-> insurance,
     financial_literacy_score |-> literacy]

DemoColumns == {"respondent_id", "province", "urban_rural", "age", "education",
                "monthly_income_rwf"}

ServColumns == {"respondent_id", "has_bank_account", "uses_mobile_money",
                "has_savings", "has_loan", "uses_insurance",
                "financial_literacy_score"}

----------------------------------------------------------------------------
(* prepare_analysis_data *)

\* demographics.merge(financial_services, on='respondent_id', how='inner'):
\* the pairs (i, j) of row positions with equal keys, in the order of the left
\* table's rows and, for one left row, of the right table's rows.
MergePairs(D, S) ==
    Flatten([i \in 1..Len(D) |->
        LET js == TrueIdx([j \in 1..Len(S) |->
                      S[j].respondent_id = D[i].respondent_id], 1)
        IN  [k \in 1..Len(js) |-> <<i, js[k]>>]])

\* One merged row: the columns of both sides; index is the label the merged
\* DataFrame's RangeIndex gives the row.
JoinRow(d, s, label) == d @@ s @@ [index |-> label]

\* Mutant: how='left', which keeps a left row without a partner (its service
\* columns missing, written -1).
MergeLeft(D, S) ==
    LET ps == Flatten([i \in 1..Len(D) |->
                  LET js == TrueIdx([j \in 1..Len(S) |->
                                S[j].respondent_id = D[i].respondent_id], 1)
                  IN  IF js = <<>> THEN << <<i, 0>> >>
                      ELSE [k \in 1..Len(js) |-> <<i, js[k]>>]])
        missing == ServRow(-1, -1, -1, -1, -1, -1, -1)
    IN  [k \in 1..Len(ps) |->
            JoinRow(D[ps[k][1]],
                    IF ps[k][2] = 0 THEN missing ELSE S[ps[k][2]], k - 1)]

Merge(D, S) ==
    LET ps == MergePairs(D, S)
    IN  [k \in 1..Len(ps) |-> JoinRow(D[ps[k][1]], S[ps[k][2]], k - 1)]

\* Mutant: any_formal_service that also counts loans.
AnyFormalServiceWithLoan(r) ==
    (r.has_bank_account = 1) \/ (r.uses_mobile_money = 1)
        \/ (r.has_savings = 1) \/ (r.has_loan = 1)

AnyFormalService(r) ==
    (r.has_bank_account = 1) \/ (r.uses_mobile_money = 1) \/ (r.has_savings = 1)

\* pd.qcut(x, q=5): the six bin edges are the quantiles 0, .2, .4, .6, .8, 1 of
\* x with linear interpolation between the two nearest order statistics.
\* QEdge5(xs, i) is 5 times edge i (i in 0..5) of the sorted values xs.
QEdge5(xs, i) ==
    LET pos5 == (Len(xs) - 1) * i
        lo   == (pos5 \div 5) + 1
        r    == pos5 % 5
    IN  IF r = 0 THEN 5 * xs[lo]
        ELSE 5 * xs[lo] + r * (xs[lo + 1] - xs[lo])

\* Mutant: failure decided by the number of distinct values.
QCutFailsFewDistinct(xs) == Cardinality(Range(xs)) < 5

\* qcut raises ValueError ("Bin edges must be unique") when two edges are
\* equal (duplicates='raise'); on an empty column every edge is NaN.
QCutFails(xs) ==
    \/ Len(xs) = 0
    \/ \E i \in 0..4 : QEdge5(xs, i) = QEdge5(xs, i + 1)

\* Mutant: bins closed on the left (searchsorted side='right').
QLabelLeftClosed(xs, v) ==
    LET ks == {k \in 1..5 : 5 * v < QEdge5(xs, k)}
    IN  IF ks = {} THEN 0 ELSE CHOOSE k \in ks : \A m \in ks : k <= m

\* The label of value v: bins are (edge k-1, edge k], the first one closed on
\* the left as well (include_lowest=True).  k stands for the label Qk; 0 is
\* pandas' NaN (no bin holds v).
QLabel(xs, v) ==
    LET ks == {k \in 1..5 : 5 * v <= QEdge5(xs, k)}
    IN  IF ks = {} \/ 5 * v < QEdge5(xs, 0) THEN 0
        ELSE CHOOSE k \in ks : \A m \in ks : k <= m

DerivedRow(r, xs) ==
    r @@ [any_formal_service |-> AnyFormalService(r),
          income_quintile |-> QLabel(xs, r.monthly_income_rwf)]

PreparedColumns ==
    DemoColumns \cup ServColumns \cup {"any_formal_service", "income_quintile"}

\* The value prepare_analysis_data returns, or the exception it raises.
PrepareAnalysisData(D, S) ==
    LET m  == Merge(D, S)
        xs == SortInts([k \in 1..Len(m) |-> m[k].monthly_income_rwf])
    IN  IF QCutFails(xs)
        THEN [obj |-> "cache", status |-> "ValueError", rows |-> <<>>,
              columns |-> {}]
        ELSE [obj |-> "cache", status |-> "ok",
              rows |-> [k \in 1..Len(m) |-> DerivedRow(m[k], xs)],
              columns |-> PreparedColumns]

----------------------------------------------------------------------------
(* DataFrame objects *)

NoFrame == [obj |-> "none", rows |-> <<>>, columns |-> {}]

\* @st.cache_data hands every caller its own copy of the cached value.
CacheDataReturn(entry) ==
    [obj |-> "df", rows |-> entry.rows, columns |-> entry.columns]

SelectRows(rows, mask) ==
    LET idx == TrueIdx(mask, 1) IN [k \in 1..Len(idx) |-> rows[idx[k]]]

\* Mutant: boolean indexing that returns a view of its operand's data.
BoolIndexShared(d, mask) ==
    [obj |-> d.obj, rows |-> SelectRows(d.rows, mask), columns |-> d.columns]

\* d[mask] with a boolean mask: a new DataFrame object holding copies of the
\* rows the mask keeps.
BoolIndex(d, mask) ==
    [obj |-> "filtered", rows |-> SelectRows(d.rows, mask), columns |-> d.columns]

\* Mutant: an empty province selection taken to mean every province.
ApplyFiltersEmptyIsAll(d, provs, ur) ==
    LET byProvince == BoolIndex(d, [k \in 1..Len(d.rows) |->
                          provs = {} \/ d.rows[k].province \in provs])
    IN  IF ur # "All"
        THEN BoolIndex(byProvince, [k \in 1..Len(byProvince.rows) |->
                 byProvince.rows[k].urban_rural = ur])
        ELSE byProvince

\* main, "Apply filters".
ApplyFilters(d, provs, ur) ==
    LET byProvince == BoolIndex(d, [k \in 1..Len(d.rows) |->
                          d.rows[k].province \in provs])
    IN  IF ur # "All"
        THEN BoolIndex(byProvince, [k \in 1..Len(byProvince.rows) |->
                 byProvince.rows[k].urban_rural = ur])
        ELSE byProvince

----------------------------------------------------------------------------
(* Reductions shared by the views *)

\* Series.mean(): the fraction num/den; den = 0 is NaN (mean of no values).
Mean(xs) == [num |-> SumSeq(xs), den |-> Len(xs)]

BoolMean(bs) == Mean([k \in 1..Len(bs) |-> IF bs[k] THEN 1 ELSE 0])

IsNaN(m) == m.den = 0

\* a - b on floats: NaN when either side is NaN.
MeanDiff(a, b) ==
    [num |-> a.num * b.den - b.num * a.den, den |-> a.den * b.den]

MeanLeq(a, b) == a.num * b.den <= b.num * a.den

MeanEq(a, b) == a.num * b.den = b.num * a.den

RowsWhere(rows, c, v) ==
    SelectRows(rows, [k \in 1..Len(rows) |-> rows[k][c] = v])

\* The keys of df.groupby(c) on a column of strings: the values present, sorted.
GroupKeys(rows, c, order) ==
    SelectSeq(order, LAMBDA key : \E k \in 1..Len(rows) : rows[k][c] = key)

RECURSIVE SetToSortedSeq(_)
SetToSortedSeq(S) ==
    IF S = {} THEN <<>>
    ELSE LET m == CHOOSE x \in S : \A y \in S : x <= y
         IN  <<m>> \o SetToSortedSeq(S \ {m})

----------------------------------------------------------------------------
(* The six views.  Each returns what it computed and displayed, the        *)
(* exception that ended it ("none" if it returned) and the columns it      *)
(* assigned on the DataFrame it was given.                                 *)

ViewNames == <<"Executive Overview", "Demographic Analysis",
               "Provincial Analysis", "Service Usage", "Market Segments",
               "Policy Insights">>

ExcludedCount(rows) == Len(RowsWhere(rows, "any_formal_service", FALSE))

\* groupby('urban_rural').agg({...: 'mean'}).reset_index()
UrbanRuralComparison(rows) ==
    LET keys == GroupKeys(rows, "urban_rural", UrbanRuralList)
    IN  [g \in 1..Len(keys) |->
            LET rs == RowsWhere(rows, "urban_rural", keys[g])
            IN  [urban_rural |-> keys[g],
                 has_bank_account |-> Mean(Col(rs, "has_bank_account")),
                 uses_mobile_money |-> Mean(Col(rs, "uses_mobile_money")),
                 any_formal_service |-> BoolMean(Col(rs, "any_formal_service"))]]

show_executive_overview(d) ==
    LET rows == d.rows
        formal_inclusion == BoolMean(Col(rows, "any_formal_service"))
        mobile_money == Mean(Col(rows, "uses_mobile_money"))
        banking == Mean(Col(rows, "has_bank_account"))
        avg_literacy == Mean(Col(rows, "financial_literacy_score"))
        excluded_count == ExcludedCount(rows)
        first3 == [formal_inclusion |-> formal_inclusion,
                   mobile_money |-> mobile_money,
                   vs_banking |-> MeanDiff(mobile_money, banking),
                   avg_literacy |-> avg_literacy]
    IN  IF Len(rows) = 0
        \* excluded_count/len(df) divides by zero while the fourth metric's
        \* arguments are built: the first three metrics are on the page.
        THEN [view |-> "Executive Overview", error |-> "ZeroDivisionError",
              added |-> {}, metrics |-> first3, tables |-> <<>>]
        ELSE [view |-> "Executive Overview", error |-> "none", added |-> {},
              metrics |-> first3 @@
                  [excluded_count |-> excluded_count,
                   excluded_share |-> [num |-> excluded_count, den |-> Len(rows)]],
              tables |-> <<
                  <<banking, mobile_money, Mean(Col(rows, "has_savings")),
                    Mean(Col(rows, "has_loan")), Mean(Col(rows, "uses_insurance"))>>,
                  UrbanRuralComparison(rows)>>]

AgeGroupLabels == <<"18-25", "26-35", "36-45", "46-55", "56+">>

\* pd.cut(age, bins=[0, 25, 35, 45, 55, 100], labels=...): right-closed bins;
\* an age outside (0, 100] gets NaN.
AgeGroup(a) ==
    IF a <= 0 \/ a > 100 THEN "NaN"
    ELSE IF a <= 25 THEN "18-25"
    ELSE IF a <= 35 THEN "26-35"
    ELSE IF a <= 45 THEN "36-45"
    ELSE IF a <= 55 THEN "46-55"
    ELSE "56+"

show_demographic_analysis(d) ==
    LET rows == d.rows
        edus == GroupKeys(rows, "education", EducationList)
        edu_analysis ==
            [g \in 1..Len(edus) |->
                LET rs == RowsWhere(rows, "education", edus[g])
                IN  [education |-> edus[g],
                     any_formal_service |-> BoolMean(Col(rs, "any_formal_service")),
                     financial_literacy_score |->
                         Mean(Col(rs, "financial_literacy_score")),
                     monthly_income_rwf |-> Mean(Col(rs, "monthly_income_rwf"))]]
        \* groupby on the categorical age_group: one row per category.
        age_analysis ==
            [g \in 1..Len(AgeGroupLabels) |->
                LET rs == SelectRows(rows, [k \in 1..Len(rows) |->
                              AgeGroup(rows[k].age) = AgeGroupLabels[g]])
                IN  [age_group |-> AgeGroupLabels[g],
                     uses_mobile_money |-> Mean(Col(rs, "uses_mobile_money")),
                     has_bank_account |-> Mean(Col(rs, "has_bank_account"))]]
    IN  [view |-> "Demographic Analysis", error |-> "none",
         added |-> {"age_group"}, metrics |-> <<>>,
         tables |-> <<edu_analysis, age_analysis>>]

\* groupby('province').agg({...: 'mean'}).reset_index()
ProvinceGroups(rows) ==
    LET keys == GroupKeys(rows, "province", ProvinceList)
    IN  [g \in 1..Len(keys) |->
            LET rs == RowsWhere(rows, "province", keys[g])
            IN  [province |-> keys[g],
                 any_formal_service |-> BoolMean(Col(rs, "any_formal_service")),
                 uses_mobile_money |-> Mean(Col(rs, "uses_mobile_money")),
                 has_bank_account |-> Mean(Col(rs, "has_bank_account")),
                 monthly_income_rwf |-> Mean(Col(rs, "monthly_income_rwf")),
                 financial_literacy_score |->
                     Mean(Col(rs, "financial_literacy_score"))]]

\* Mutant: the sort taken with ascending=False.
SortOrdersDescending(grouped) ==
    {p \in Permutations(1..Len(grouped)) :
        \A i \in 1..(Len(grouped) - 1) :
            MeanLeq(grouped[p[i + 1]].any_formal_service,
                    grouped[p[i]].any_formal_service)}

\* sort_values('any_formal_service', ascending=True) sorts with numpy's
\* argsort(kind='quicksort'), which is not a stable sort: every order that is
\* ascending in the key is an outcome, whatever it does to equal keys.
SortOrders(grouped) ==
    {p \in Permutations(1..Len(grouped)) :
        \A i \in 1..(Len(grouped) - 1) :
            MeanLeq(grouped[p[i]].any_formal_service,
                    grouped[p[i + 1]].any_formal_service)}

show_provincial_analysis(d, p) ==
    LET grouped == ProvinceGroups(d.rows)
        province_stats == [i \in 1..Len(grouped) |-> grouped[p[i]]]
    IN  [view |-> "Provincial Analysis", error |-> "none", added |-> {},
         metrics |-> <<>>, grouped |-> grouped,
         tables |-> <<province_stats>>]

ServiceCount(r) ==
    r.has_bank_account + r.uses_mobile_money + r.has_savings + r.has_loan
        + r.uses_insurance

\* Mutant: the histogram reindexed over 0..5 (empty buckets kept with count 0).
ServiceDistAllBuckets(rows) ==
    [b \in 1..6 |->
        <<b - 1, Cardinality({k \in 1..Len(rows) : ServiceCount(rows[k]) = b - 1})>>]

\* df['service_count'].value_counts().sort_index(): one entry per value that
\* occurs, ascending by value.
ServiceDist(rows) ==
    LET vals == SetToSortedSeq({ServiceCount(rows[k]) : k \in 1..Len(rows)})
    IN  [b \in 1..Len(vals) |->
            <<vals[b], Cardinality({k \in 1..Len(rows) :
                           ServiceCount(rows[k]) = vals[b]})>>]

show_service_usage(d) ==
    LET rows == d.rows
        \* groupby on the categorical income_quintile: one row per label.
        income_service ==
            [q \in 1..5 |->
                LET rs == RowsWhere(rows, "income_quintile", q)
                IN  [income_quintile |-> q,
                     has_bank_account |-> Mean(Col(rs, "has_bank_account")),
                     uses_mobile_money |-> Mean(Col(rs, "uses_mobile_money")),
                     has_savings |-> Mean(Col(rs, "has_savings")),
                     service_count |->
                         Mean([k \in 1..Len(rs) |-> ServiceCount(rs[k])])]]
    IN  [view |-> "Service Usage", error |-> "none",
         added |-> {"service_count"}, metrics |-> <<>>,
         tables |-> <<ServiceDist(rows), income_service>>]

\* Mutant: Mobile-Only selected without the has_bank_account == 0 test.
MobileOnlyNoBankTest(rows) ==
    SelectRows(rows, [k \in 1..Len(rows) |-> rows[k].uses_mobile_money = 1])

DigitalChampions(rows) ==
    SelectRows(rows, [k \in 1..Len(rows) |->
        rows[k].uses_mobile_money = 1 /\ rows[k].has_bank_account = 1])

MobileOnly(rows) ==
    SelectRows(rows, [k \in 1..Len(rows) |->
        rows[k].uses_mobile_money = 1 /\ rows[k].has_bank_account = 0])

BankOnly(rows) ==
    SelectRows(rows, [k \in 1..Len(rows) |->
        rows[k].has_bank_account = 1 /\ rows[k].uses_mobile_money = 0])

Excluded(rows) ==
    SelectRows(rows, [k \in 1..Len(rows) |->
        rows[k].has_bank_account = 0 /\ rows[k].uses_mobile_money = 0])

SegmentNames == <<"Digital Champions", "Mobile-Only Users",
                  "Traditional Banking", "Financially Excluded">>

show_market_segments(d) ==
    LET rows == d.rows
        frames == <<DigitalChampions(rows), MobileOnly(rows), BankOnly(rows),
                    Excluded(rows)>>
        segments == [s \in 1..4 |-> Len(frames[s])]
        \* only the segments with members get a row (len(segment_df) > 0)
        present == SelectSeq(<<1, 2, 3, 4>>, LAMBDA s : Len(frames[s]) > 0)
        segment_data ==
            [i \in 1..Len(present) |->
                LET f == frames[present[i]]
                IN  [Segment |-> SegmentNames[present[i]], Size |-> Len(f),
                     Percentage |-> [num |-> Len(f), den |-> Len(rows)],
                     AvgIncome |-> Mean(Col(f, "monthly_income_rwf")),
                     UrbanShare |-> BoolMean([k \in 1..Len(f) |->
                                       f[k].urban_rural = "Urban"]),
                     AvgLiteracy |-> Mean(Col(f, "financial_literacy_score"))]]
    IN  [view |-> "Market Segments", error |-> "none", added |-> {},
         metrics |-> <<>>, frames |-> frames, segments |-> segments,
         tables |-> <<segment_data>>]

show_policy_insights(d) ==
    LET rows == d.rows
        urban_inclusion ==
            BoolMean(Col(RowsWhere(rows, "urban_rural", "Urban"), "any_formal_service"))
        rural_inclusion ==
            BoolMean(Col(RowsWhere(rows, "urban_rural", "Rural"), "any_formal_service"))
        rural_excluded ==
            Len(RowsWhere(RowsWhere(rows, "urban_rural", "Rural"),
                          "any_formal_service", FALSE))
    IN  [view |-> "Policy Insights", error |-> "none", added |-> {},
         metrics |->
             [urban_rural_gap |-> MeanDiff(urban_inclusion, rural_inclusion),
              rural_excluded |-> rural_excluded,
              mobile_advantage |->
                  MeanDiff(Mean(Col(rows, "uses_mobile_money")),
                           Mean(Col(rows, "has_bank_account"))),
              low_literacy |-> Cardinality({k \in 1..Len(rows) :
                                  rows[k].financial_literacy_score < 5}),
              non_mobile |-> Len(RowsWhere(rows, "uses_mobile_money", 0))],
         tables |-> <<>>]

\* main, "Main dashboard content": the view the selectbox names.
RunView(v, d, p) ==
    CASE v = "Executive Overview" -> show_executive_overview(d)
      [] v = "Demographic Analysis" -> show_demographic_analysis(d)
      [] v = "Provincial Analysis" -> show_provincial_analysis(d, p)
      [] v = "Service Usage" -> show_service_usage(d)
      [] v = "Market Segments" -> show_market_segments(d)
      [] v = "Policy Insights" -> show_policy_insights(d)

\* The outcomes of the one nondeterministic step of a run: the order the
\* provincial view's sort returns.
RunChoices(v, d) ==
    IF v = "Provincial Analysis" THEN SortOrders(ProvinceGroups(d.rows))
    ELSE {<<>>}

----------------------------------------------------------------------------
(* Script runs *)

EmptyCache == [obj |-> "cache", status |-> "empty", rows |-> <<>>, columns |-> {}]

NoOutput == [view |-> "none", error |-> "none", added |-> {}]

\* A column the view assigns lands on the object the view was given (f), and
\* so on every variable naming that object.
After(x, f, out) ==
    IF x.obj = f.obj THEN [x EXCEPT !.columns = @ \cup out.added] ELSE x

\* main() from "Apply filters" on, given the cache entry df is read from and
\* the widget values of this run.
Main(entry, v, provs, ur) ==
    \E d \in {CacheDataReturn(entry)} :
    \E f \in {ApplyFilters(d, provs, ur)} :
    \E p \in RunChoices(v, f) :
    \E out \in {RunView(v, f, p)} :
        /\ cache' = After(entry, f, out)
        /\ df' = After(d, f, out)
        /\ filtered_df' = After(f, f, out)
        /\ view_in' = f
        /\ view_out' = out
        /\ run' = IF out.error = "none" THEN "ok" ELSE out.error

\* The first run of the script in a session: prepare_analysis_data misses the
\* cache and computes; an exception it raises ends the run before any widget
\* exists.  The widgets take their defaults: the first view, every province
\* of the merged table, 'All'.
FirstRun ==
    /\ run = "start"
    /\ \E entry \in {PrepareAnalysisData(demographics, financial_services)} :
           IF entry.status # "ok"
           THEN /\ run' = entry.status
                /\ UNCHANGED <<cache, analysis_type, selected_provinces,
                               urban_rural_filter, df, filtered_df, view_in,
                               view_out>>
           ELSE /\ analysis_type' = ViewNames[1]
                /\ selected_provinces' = Range(Col(entry.rows, "province"))
                /\ urban_rural_filter' = "All"
                /\ Main(entry, ViewNames[1],
                        Range(Col(entry.rows, "province")), "All")
    /\ UNCHANGED <<demographics, financial_services>>

SidebarShown == run \in {"ok", "ZeroDivisionError"}

\* A widget change reruns the script; prepare_analysis_data hits the cache.
ChangeView(v) ==
    /\ SidebarShown
    /\ v # analysis_type
    /\ analysis_type' = v
    /\ Main(cache, v, selected_provinces, urban_rural_filter)
    /\ UNCHANGED <<demographics, financial_services, selected_provinces,
                   urban_rural_filter>>

ChangeProvinces(provs) ==
    /\ SidebarShown
    /\ provs # selected_provinces
    /\ selected_provinces' = provs
    /\ Main(cache, analysis_type, provs, urban_rural_filter)
    /\ UNCHANGED <<demographics, financial_services, analysis_type,
                   urban_rural_filter>>

ChangeUrbanRural(ur) ==
    /\ SidebarShown
    /\ ur # urban_rural_filter
    /\ urban_rural_filter' = ur
    /\ Main(cache, analysis_type, selected_provinces, ur)
    /\ UNCHANGED <<demographics, financial_services, analysis_type,
                   selected_provinces>>

----------------------------------------------------------------------------
(* Input families and specifications *)

FlagProfiles == {<<0, 0, 0, 0, 0>>, <<0, 1, 0, 0, 0>>, <<1, 0, 1, 0, 0>>,
                 <<1, 1, 1, 1, 1>>}

AllFlagProfiles == Flags \X Flags \X Flags \X Flags \X Flags

DemoChoices == Range(ProvinceList) \X Range(UrbanRuralList) \X Ages
                   \X Range(EducationList)

ServChoices == FlagProfiles \X LiteracyScores

SessionStart ==
    /\ cache = EmptyCache
    /\ analysis_type = ViewNames[1]
    /\ selected_provinces = {}
    /\ urban_rural_filter = "All"
    /\ df = NoFrame
    /\ filtered_df = NoFrame
    /\ view_in = NoFrame
    /\ view_out = NoOutput
    /\ run = "start"

\* Respondents 1..n, one row each in both tables, incomes pairwise distinct.
Init ==
    /\ \E n \in 0..MaxRows :
        /\ demographics \in
              {[i \in 1..n |-> DemoRow(i, c[i][1], c[i][2], c[i][3], c[i][4], i)] :
                  c \in [1..n -> DemoChoices]}
        /\ financial_services \in
              {[i \in 1..n |-> ServRow(i, c[i][1][1], c[i][1][2], c[i][1][3],
                                       c[i][1][4], c[i][1][5], c[i][2])] :
                  c \in [1..n -> ServChoices]}
    /\ SessionStart

Next ==
    \/ FirstRun
    \/ \E v \in Range(ViewNames) : ChangeView(v)
    \/ \E provs \in SUBSET Range(Col(cache.rows, "province")) :
           ChangeProvinces(provs)
    \/ \E ur \in {"All", "Urban", "Rural"} : ChangeUrbanRural(ur)

Spec == Init /\ [][Next]_vars

PlainDemo(id, income) ==
    DemoRow(id, ProvinceList[1], UrbanRuralList[1], CHOOSE a \in Ages : TRUE,
            EducationList[1], income)

PlainServ(id, f) ==
    ServRow(id, f[1], f[2], f[3], f[4], f[5], CHOOSE l \in LiteracyScores : TRUE)

\* Tables whose identifiers repeat or have no partner in the other table.
InitIdentifiers ==
    \E nd \in 0..MaxRows, ns \in 0..MaxRows :
        /\ demographics \in
              {[i \in 1..nd |-> PlainDemo(id[i], i)] : id \in [1..nd -> 1..MaxId]}
        /\ financial_services \in
              {[j \in 1..ns |-> PlainServ(id[j], <<0, 1, 0, 0, 0>>)] :
                  id \in [1..ns -> 1..MaxId]}

\* Two respondents with every combination of the five service flags.
InitFlags ==
    /\ demographics = <<PlainDemo(1, 1), PlainDemo(2, 2)>>
    /\ financial_services \in
          {<<PlainServ(1, f), PlainServ(2, g)>> :
              f \in AllFlagProfiles, g \in AllFlagProfiles}

\* Respondents 1..n with any incomes, ties included, in any row order.
InitIncomes ==
    \E n \in 0..MaxQRows :
        /\ demographics \in
              {[i \in 1..n |-> PlainDemo(i, inc[i])] : inc \in [1..n -> 1..MaxIncome]}
        /\ financial_services = [i \in 1..n |-> PlainServ(i, <<0, 1, 0, 0, 0>>)]

InitPrepare ==
    /\ InitIdentifiers \/ InitFlags \/ InitIncomes
    /\ SessionStart

NextPrepare == FirstRun

SpecPrepare == InitPrepare /\ [][NextPrepare]_vars

----------------------------------------------------------------------------
(* Properties *)

Prepared == cache.status = "ok"

ViewRan(v) == run \in {"ok", "ZeroDivisionError"} /\ view_out.view = v

Ids(t) == {t[k].respondent_id : k \in 1..Len(t)}

CountId(t, id) == Cardinality({k \in 1..Len(t) : t[k].respondent_id = id})

UniqueIds(t) == \A id \in Ids(t) : CountId(t, id) = 1

\* The (i, j) a merged row can have been built from.
SourcesOf(r) ==
    {ij \in (1..Len(demographics)) \X (1..Len(financial_services)) :
        /\ demographics[ij[1]].respondent_id = r.respondent_id
        /\ financial_services[ij[2]].respondent_id = r.respondent_id
        /\ \A c \in DOMAIN demographics[ij[1]] : r[c] = demographics[ij[1]][c]
        /\ \A c \in DOMAIN financial_services[ij[2]] :
               r[c] = financial_services[ij[2]][c]}

\* C1: in the market-segments view the four segments are pairwise disjoint,
\* every row of the filtered view is in exactly one of them, each holds only
\* rows of its (bank, mobile) pair, and the four sizes sum to the row count.
C1_SegmentsPartition ==
    ViewRan("Market Segments") =>
        LET fr == view_out.frames
            rows == view_in.rows
            pair == <<(<<1, 1>>), (<<0, 1>>), (<<1, 0>>), (<<0, 0>>)>>
        IN  /\ \A s, t \in 1..4 : s # t => Range(fr[s]) \cap Range(fr[t]) = {}
            /\ \A k \in 1..Len(rows) :
                   Cardinality({s \in 1..4 : rows[k] \in Range(fr[s])}) = 1
            /\ \A s \in 1..4 : \A r \in Range(fr[s]) :
                   /\ r \in Range(rows)
                   /\ <<r.has_bank_account, r.uses_mobile_money>> = pair[s]
            /\ view_out.segments[1] + view_out.segments[2]
                   + view_out.segments[3] + view_out.segments[4] = Len(rows)

C1_Witness ==
    /\ ViewRan("Market Segments")
    /\ Len(view_in.rows) = 2
    /\ view_out.segments[2] = 1
    /\ view_out.segments[4] = 1

\* C2 as stated: every merged row's identifier occurs in both tables, every
\* merged row has exactly one source pair, and there are at most
\* min(|D|, |S|) merged rows, repeated identifiers included.
C2_MergeAtMostMin ==
    Prepared =>
        /\ \A k \in 1..Len(cache.rows) :
               /\ cache.rows[k].respondent_id \in Ids(demographics)
               /\ cache.rows[k].respondent_id \in Ids(financial_services)
               /\ Cardinality(SourcesOf(cache.rows[k])) = 1
        /\ Len(cache.rows) <= Min(Len(demographics), Len(financial_services))

\* C2 amended: every merged row's identifier occurs in both tables and the
\* row is built from a row of each with that identifier; the number of merged
\* rows is the sum over identifiers of (occurrences in D) * (occurrences in
\* S); when no identifier repeats in D nor in S every merged row has exactly
\* one source pair and there are at most min(|D|, |S|) merged rows.
C2_MergeInvariant ==
    Prepared =>
        /\ \A k \in 1..Len(cache.rows) :
               /\ cache.rows[k].respondent_id \in Ids(demographics)
               /\ cache.rows[k].respondent_id \in Ids(financial_services)
               /\ SourcesOf(cache.rows[k]) # {}
        /\ Len(cache.rows) =
               SumSeq([k \in 1..Len(demographics) |->
                   CountId(financial_services, demographics[k].respondent_id)])
        /\ (UniqueIds(demographics) /\ UniqueIds(financial_services)) =>
               /\ \A k \in 1..Len(cache.rows) :
                      Cardinality(SourcesOf(cache.rows[k])) = 1
               /\ Len(cache.rows)
                      <= Min(Len(demographics), Len(financial_services))

C2_Witness ==
    /\ Prepared
    /\ ~UniqueIds(demographics)
    /\ Len(cache.rows) > Min(Len(demographics), Len(financial_services))

\* C3: the filtered view holds exactly the merged rows, in their order, whose
\* province is selected and, unless the setting is All, whose urban_rural
\* equals the setting; no province selected gives no rows, and All keeps the
\* province-filtered rows.
C3_FilterExact ==
    run \in {"ok", "ZeroDivisionError"} =>
        LET M == cache.rows
            F == view_in.rows
            Keep(r) == /\ r.province \in selected_provinces
                       /\ urban_rural_filter # "All" =>
                              r.urban_rural = urban_rural_filter
            idx == {k \in 1..Len(M) : Keep(M[k])}
        IN  /\ Len(F) = Cardinality(idx)
            /\ \A k \in idx : F[Cardinality({m \in idx : m <= k})] = M[k]
            /\ selected_provinces = {} => Len(F) = 0
            /\ filtered_df.rows = F

C3_Witness ==
    /\ run \in {"ok", "ZeroDivisionError"}
    /\ urban_rural_filter = "Rural"
    /\ Len(view_in.rows) = 1
    /\ Len(cache.rows) = 2
    /\ selected_provinces = Range(Col(cache.rows, "province"))

\* C4 as stated: a view given a filtered view with no rows ends with
\* EmptyInputError.
C4_EmptyViewRaises ==
    (run # "start" /\ view_out.view # "none" /\ Len(view_in.rows) = 0) =>
        view_out.error = "EmptyInputError"

QuintileSizes(rows) ==
    [q \in 1..5 |-> Cardinality({k \in 1..Len(rows) : rows[k].income_quintile = q})]

IncomeOrdered(rows) ==
    \A a, b \in 1..Len(rows) :
        rows[a].income_quintile < rows[b].income_quintile =>
            rows[a].monthly_income_rwf < rows[b].monthly_income_rwf

DistinctIncomes(rows) ==
    \A a, b \in 1..Len(rows) :
        a # b => rows[a].monthly_income_rwf # rows[b].monthly_income_rwf

AllLabelled(rows) == \A k \in 1..Len(rows) : rows[k].income_quintile \in 1..5

\* C5 as stated: whenever the quintile computation succeeds, ties included,
\* the five groups' sizes differ by at most 1 and the groups are ordered by
\* income.
C5_QuintilesBalanced ==
    Prepared =>
        /\ AllLabelled(cache.rows)
        /\ \A p, q \in 1..5 :
               QuintileSizes(cache.rows)[p] - QuintileSizes(cache.rows)[q] <= 1
        /\ IncomeOrdered(cache.rows)

\* C5 amended: whenever the quintile computation succeeds every row has one
\* of Q1..Q5, rows of a lower quintile have lower incomes than rows of a
\* higher one, rows with equal incomes share a quintile, and the group sizes
\* differ by at most 1 when the incomes are pairwise distinct.
C5_QuintilesOrdered ==
    Prepared =>
        /\ AllLabelled(cache.rows)
        /\ IncomeOrdered(cache.rows)
        /\ \A a, b \in 1..Len(cache.rows) :
               cache.rows[a].monthly_income_rwf = cache.rows[b].monthly_income_rwf
                   => cache.rows[a].income_quintile = cache.rows[b].income_quintile
        /\ DistinctIncomes(cache.rows) =>
               \A p, q \in 1..5 :
                   QuintileSizes(cache.rows)[p] - QuintileSizes(cache.rows)[q] <= 1

C5_Witness ==
    /\ Prepared
    /\ ~DistinctIncomes(cache.rows)
    /\ QuintileSizes(cache.rows)[2] = 2
    /\ QuintileSizes(cache.rows)[3] = 0

MergedIncomes == Range(Col(Merge(demographics, financial_services),
                           "monthly_income_rwf"))

\* C6 as stated: prepare_analysis_data fails exactly when the merged income
\* column has fewer than 5 distinct values.
C6_FailsIffFewDistinct ==
    run # "start" =>
        ((run = "ValueError") <=> (Cardinality(MergedIncomes) < 5))

\* The k-th smallest (k from 0) of the merged incomes.
OrderStatistic(m, k) ==
    CHOOSE v \in Range(Col(m, "monthly_income_rwf")) :
        /\ Cardinality({a \in 1..Len(m) : m[a].monthly_income_rwf < v}) <= k
        /\ Cardinality({a \in 1..Len(m) : m[a].monthly_income_rwf <= v}) > k

\* C6 amended: prepare_analysis_data fails exactly when the merged table is
\* empty or, for some i in 0..4, its sorted incomes are equal from position
\* floor((N-1)i/5) to position ceil((N-1)(i+1)/5) (two quantile edges then
\* coincide); so it fails when the column has at most one distinct value, it
\* does not fail on 2 or more rows with pairwise distinct incomes (2, 3 or 4
\* distinct values included), and whenever it does not fail every row has a
\* quintile.
C6_FailsOnEqualEdges ==
    run # "start" =>
        \E m \in {Merge(demographics, financial_services)} :
            LET N == Len(m)
                flat(i) == OrderStatistic(m, ((N - 1) * i) \div 5) =
                           OrderStatistic(m, ((N - 1) * (i + 1) + 4) \div 5)
            IN  /\ (run = "ValueError") <=> (N = 0 \/ \E i \in 0..4 : flat(i))
                /\ Cardinality(MergedIncomes) <= 1 => run = "ValueError"
                /\ (N >= 2 /\ DistinctIncomes(m)) => Prepared
                /\ Prepared => (Len(cache.rows) = N /\ AllLabelled(cache.rows))

C6_Witness ==
    /\ Prepared
    /\ Cardinality(MergedIncomes) = 3

\* C7: on every merged row any_formal_service is true exactly when one of
\* has_bank_account, uses_mobile_money, has_savings is 1; rows that agree on
\* these three agree on it, whatever has_loan and uses_insurance are.
C7_AnyFormalService ==
    Prepared =>
        /\ \A k \in 1..Len(cache.rows) :
               LET r == cache.rows[k]
               IN  (r.any_formal_service = FALSE) <=>
                       (r.has_bank_account + r.uses_mobile_money + r.has_savings = 0)
        /\ \A a, b \in 1..Len(cache.rows) :
               LET r == cache.rows[a]
                   t == cache.rows[b]
               IN  (/\ r.has_bank_account = t.has_bank_account
                    /\ r.uses_mobile_money = t.uses_mobile_money
                    /\ r.has_savings = t.has_savings)
                       => r.any_formal_service = t.any_formal_service

C7_Witness ==
    /\ Prepared
    /\ \E a, b \in 1..Len(cache.rows) :
           /\ cache.rows[a].has_loan = 1
           /\ cache.rows[a].uses_insurance = 1
           /\ ~cache.rows[a].any_formal_service
           /\ cache.rows[b].has_savings = 1
           /\ cache.rows[b].has_bank_account = 0
           /\ cache.rows[b].uses_mobile_money = 0
           /\ cache.rows[b].any_formal_service

\* C8: after any sequence of widget changes the cached merged table is what
\* prepare_analysis_data returned, the run's df is a copy of it with the same
\* rows and columns, and the view received a DataFrame with exactly the
\* merged table's columns: a column a view assigns stays on its own filtered
\* copy.
C8_MergedTableUnchanged ==
    run \in {"ok", "ZeroDivisionError"} =>
        /\ cache = PrepareAnalysisData(demographics, financial_services)
        /\ df.rows = cache.rows
        /\ df.columns = PreparedColumns
        /\ view_in.columns = PreparedColumns
        /\ filtered_df.columns = PreparedColumns \cup view_out.added

C8_Witness ==
    /\ ViewRan("Service Usage")
    /\ "service_count" \in filtered_df.columns
    /\ "service_count" \notin df.columns
    /\ Len(filtered_df.rows) = Len(df.rows)

Ascending(t) ==
    \A i \in 1..(Len(t) - 1) :
        MeanLeq(t[i].any_formal_service, t[i + 1].any_formal_service)

OneRowPerProvince(t, rows) ==
    /\ {t[i].province : i \in 1..Len(t)} = Range(Col(rows, "province"))
    /\ \A i, j \in 1..Len(t) : i # j => t[i].province # t[j].province

PositionIn(t, prov) == CHOOSE i \in 1..Len(t) : t[i].province = prov

\* C9 as stated: the provincial table has one row per province of the view,
\* is ascending in the inclusion rate, and provinces with equal rates keep
\* the order of the grouped table.
C9_SortedStable ==
    (ViewRan("Provincial Analysis") /\ Len(view_in.rows) > 0) =>
        LET t == view_out.tables[1]
        IN  /\ OneRowPerProvince(t, view_in.rows)
            /\ Ascending(t)
            /\ \A i, j \in 1..Len(t) :
                   (i < j /\ MeanEq(t[i].any_formal_service, t[j].any_formal_service))
                       => PositionIn(view_out.grouped, t[i].province)
                              < PositionIn(view_out.grouped, t[j].province)

\* C9 amended: the provincial table has one row per province of the view,
\* each carrying that province's inclusion rate, and is ascending in the
\* inclusion rate; the order of provinces with equal rates is not fixed.
C9_SortedAscending ==
    (ViewRan("Provincial Analysis") /\ Len(view_in.rows) > 0) =>
        LET t == view_out.tables[1]
        IN  /\ OneRowPerProvince(t, view_in.rows)
            /\ Ascending(t)
            /\ \A i \in 1..Len(t) :
                   LET rs == RowsWhere(view_in.rows, "province", t[i].province)
                   IN  t[i].any_formal_service =
                           [num |-> Cardinality({k \in 1..Len(rs) :
                                        rs[k].any_formal_service}),
                            den |-> Len(rs)]

C9_Witness ==
    /\ ViewRan("Provincial Analysis")
    /\ Len(view_out.tables[1]) = 2
    /\ ~MeanEq(view_out.tables[1][1].any_formal_service,
               view_out.tables[1][2].any_formal_service)
    /\ view_out.tables[1][1].province = ProvinceList[2]

\* C10 as stated: the service_count distribution has exactly the six buckets
\* 0..5 in ascending order, each with the number of rows whose five flags sum
\* to it, 0 included.
C10_SixBuckets ==
    (ViewRan("Service Usage") /\ Len(view_in.rows) > 0) =>
        LET dist == view_out.tables[1]
        IN  /\ Len(dist) = 6
            /\ \A b \in 1..6 :
                   dist[b] = <<b - 1, Cardinality({k \in 1..Len(view_in.rows) :
                                          ServiceCount(view_in.rows[k]) = b - 1})>>

\* C10 amended: the service_count distribution has one bucket for each value
\* in 0..5 that some row's five flags sum to, in ascending order, holding the
\* number of such rows (never 0); a value no row has gets no bucket.
C10_BucketsPresent ==
    (ViewRan("Service Usage") /\ Len(view_in.rows) > 0) =>
        LET dist == view_out.tables[1]
            rows == view_in.rows
            Sum5(r) == r.has_bank_account + r.uses_mobile_money + r.has_savings
                           + r.has_loan + r.uses_insurance
        IN  /\ {dist[b][1] : b \in 1..Len(dist)} = {Sum5(rows[k]) : k \in 1..Len(rows)}
            /\ \A b \in 1..(Len(dist) - 1) : dist[b][1] < dist[b + 1][1]
            /\ \A b \in 1..Len(dist) :
                   /\ dist[b][1] \in 0..5
                   /\ dist[b][2] > 0
                   /\ dist[b][2] = Cardinality({k \in 1..Len(rows) :
                                       Sum5(rows[k]) = dist[b][1]})
            /\ SumSeq([b \in 1..Len(dist) |-> dist[b][2]]) = Len(rows)

C10_Witness ==
    /\ ViewRan("Service Usage")
    /\ Len(view_in.rows) = 2
    /\ Len(view_out.tables[1]) = 2
    /\ view_out.tables[1][1][1] = 1
    /\ view_out.tables[1][2][1] = 5

====
